---- MODULE Spec2Model ----
(***************************************************************************)
(* State-machine model of the signal generation and backtesting core of    *)
(* bitcoin-ema-analyzer:                                                   *)
(*   - the position-tracking signal loop of calculate_ema_slope            *)
(*     (src/indicators/ema_slope.py),                                      *)
(*   - BacktestEngine (src/backtesting/engine.py),                         *)
(*   - ParameterOptimizer.grid_search and walk_forward_analysis            *)
(*     (src/backtesting/optimizer.py),                                     *)
(*   - BacktestAnalyzer.calculate_metrics (src/backtesting/analyzer.py),   *)
(*   - the parameter handling of calculate_ema_slope.                      *)
(* Floating-point amounts are modelled as exact rationals <<num, den>>.    *)
(***************************************************************************)
EXTENDS Integers, Sequences, FiniteSets, TLC

\* ------------------------------------------------------------------------
\* Bounds of the model
\* ------------------------------------------------------------------------

\* longest slope series fed to the signal loop
MaxLen == 5

\* longest bar series fed to run_backtest
MaxBars == 3

\* largest number of parameter combinations of a grid
MaxCombos == 4

\* ------------------------------------------------------------------------
\* Inputs of the signal loop
\* ------------------------------------------------------------------------

\* the "no value" cell of a pandas column (np.nan): a marker outside
\* SlopeValues, always tested with isna before any comparison
NaN == -1000

\* candidate ntz_threshold values (ntz_threshold > 0)
Thresholds == {1, 2}

\* slope values below, at, between, at and above the thresholds -t and +t
SlopeValues(t) == {-t - 1, -t, 0, t, t + 1}

SlopeCells(t) == SlopeValues(t) \cup {NaN}

RECURSIVE SeqsUpTo(_, _)
\* all sequences over S of length exactly n
SeqsOfLen(S, n) == [1..n -> S]

SeqsUpTo(S, n) == IF n = 0 THEN {<<>>} ELSE SeqsOfLen(S, n) \cup SeqsUpTo(S, n - 1)

VARIABLES
    rawSlope,       \* result['slope'] as computed at line 113 (NaN where undefined)
    slope,          \* the result['slope'] column as it currently stands
    ntz_threshold,  \* the ntz_threshold argument
    i,              \* number of bars whose signal has been decided (bar k is index k+1)
    position,       \* the local 'position' of the loop: FLAT, LONG or SHORT
    signal,         \* the result['signal'] column
    in_ntz,         \* the result['in_ntz'] column
    acceleration,   \* the result['acceleration'] column
    sigPc,          \* "loop" while the signal loop runs, "returned" after line 169
    engine,         \* the BacktestEngine object: its self.* fields
    df,             \* the rows [timestamp, close, signal] of the frame given to
                    \* run_backtest that df.iterrows() has yielded so far
    position_size,  \* the position_size argument of run_backtest
    openAtEnd,      \* the value of self.in_position tested at line 146
    returned,       \* the value run_backtest returns
    engPc,          \* "loop" while run_backtest iterates, "done" once it returned
    param_grid,     \* the param_grid argument: one candidate-value list per name
    strategy,       \* self.strategy_function on the given data: the outcome of
                    \* the call for the k-th combination
    n_jobs,         \* the n_jobs argument
    cursor,         \* sequential mode: position of the next combination
    calls,          \* how many times self.strategy_function has been invoked
                    \* with the k-th combination
    futures,        \* parallel mode: the state of the future of each combination
    results,        \* the local list 'results'
    errors,         \* the parameter sets logged by logger.error
    results_df,     \* the frame grid_search returns and stores in self.results
    gsPc,           \* where grid_search stands
    data_len,       \* len(data) of the frame given to walk_forward_analysis
    train_size,     \* the train_size argument
    test_size,      \* the test_size argument
    window,         \* the loop variable i of walk_forward_analysis
    all_results,    \* the local list 'all_results'
    wf_returned,    \* the dictionary walk_forward_analysis returns
    wfPc,           \* where walk_forward_analysis stands
    an_trades,      \* the trades frame given to BacktestAnalyzer: the caller's
                    \* object and self.trades are the same frame (line 27)
    an_equity,      \* the equity_curve frame given to BacktestAnalyzer
    an_metrics,     \* what the last call of calculate_metrics returned
    an_calls,       \* number of calls of calculate_metrics so far
    cfg,            \* the keyword arguments of a calculate_ema_slope call
    cfgPc           \* how far that call has got

sigVars == <<rawSlope, slope, ntz_threshold, i, position, signal, in_ntz,
            acceleration, sigPc>>

engVars == <<engine, df, position_size, openAtEnd, returned, engPc>>

gridVars == <<param_grid, strategy, n_jobs, cursor, calls, futures, results,
              errors, results_df, gsPc>>

wfVars == <<data_len, train_size, test_size, window, all_results, wf_returned,
            wfPc>>

anVars == <<an_trades, an_equity, an_metrics, an_calls>>

cfgVars == <<cfg, cfgPc>>

vars == <<sigVars, engVars, gridVars, wfVars, anVars, cfgVars>>

\* ------------------------------------------------------------------------
\* calculate_ema_slope: signal loop (lines 124-159) and clean-up (161-169)
\* ------------------------------------------------------------------------

isna(x) == x = NaN

RECURSIVE bfill(_)
\* Series.bfill(): an undefined cell takes the nearest later defined value
bfill(s) ==
    IF Len(s) = 0 THEN <<>>
    ELSE LET rest == bfill(Tail(s))
         IN  IF isna(Head(s)) /\ Len(rest) > 0
             THEN <<Head(rest)>> \o rest
             ELSE <<Head(s)>> \o rest

\* Series.fillna(v)
fillna(s, v) == [k \in 1..Len(s) |-> IF isna(s[k]) THEN v ELSE s[k]]

\* Series.abs() on a cell that holds a number, and abs() of an integer
Abs(n) == IF n < 0 THEN -n ELSE n

\* one cell of result['slope'].abs() <= ntz_threshold, line 122: abs() of
\* NaN is NaN and a comparison with NaN is False
abs_le(x, t) == IF isna(x) THEN FALSE ELSE Abs(x) <= t

\* result['in_ntz'].fillna(True), line 167: the cells that hold no value
\* become True; a cell of a boolean column always holds one
fillna_True(col) ==
    [k \in 1..Len(col) |-> IF col[k] \in BOOLEAN THEN col[k] ELSE TRUE]

\* ------------------------------------------------------------------------
\* Exact arithmetic for the engine's float amounts: <<numerator, denominator>>
\* in lowest terms with a positive denominator
\* ------------------------------------------------------------------------

RECURSIVE GCD(_, _)
GCD(a, b) == IF b = 0 THEN a ELSE GCD(b, a % b)

Rat(n, d) ==
    LET sn == IF d < 0 THEN -n ELSE n
        sd == Abs(d)
        g  == GCD(Abs(sn), sd)
    IN  <<sn \div g, sd \div g>>

Zero == <<0, 1>>

One == <<1, 1>>

FromInt(n) == <<n, 1>>

\* x + y
RAdd(x, y) ==
    LET g == GCD(x[2], y[2])
    IN  Rat(x[1] * (y[2] \div g) + y[1] * (x[2] \div g), (x[2] \div g) * y[2])

\* x - y
RSub(x, y) == RAdd(x, <<-y[1], y[2]>>)

\* x * y
RMul(x, y) ==
    LET a == Rat(x[1], y[2])
        b == Rat(y[1], x[2])
    IN  Rat(a[1] * b[1], a[2] * b[2])

\* x / y, y # 0
RDiv(x, y) == RMul(x, Rat(y[2], y[1]))

\* x < y
RLt(x, y) == x[1] * y[2] < y[1] * x[2]

\* x <= y
RLe(x, y) == x[1] * y[2] <= y[1] * x[2]

RECURSIVE RSum(_)
\* the sum of a sequence of amounts
RSum(xs) == IF Len(xs) = 0 THEN Zero ELSE RAdd(Head(xs), RSum(Tail(xs)))

\* ------------------------------------------------------------------------
\* calculate_ema_slope: the acceleration column (lines 115-119, 166)
\* ------------------------------------------------------------------------

\* smooth_bars=3, the default of calculate_ema_slope
smooth_bars == 3

\* NaN in a column of exact rationals
NaNRat == <<0, 0>>

\* pd.isna on a cell of such a column
isna_rat(x) == x[2] = 0

\* the largest element of a non-empty set of integers
Max(S) == CHOOSE m \in S : \A x \in S : x <= m

\* one cell of slope_change, line 116: undefined on the first bar (shift(1))
\* and wherever one of the two slopes is undefined
slope_change(col, k) ==
    IF k = 1 \/ isna(col[k]) \/ isna(col[k - 1]) THEN NaN
    ELSE Abs(col[k] - col[k - 1]) * smooth_bars * 2

\* one cell of accel_high, lines 117-118: the largest defined slope_change
\* of the last 200 bars, undefined when there is none or when it is 0
accel_high(col, k) ==
    LET first   == IF k > 200 THEN k - 199 ELSE 1
        defined == {slope_change(col, j) : j \in first..k} \ {NaN}
    IN  IF defined = {} THEN NaN
        ELSE IF Max(defined) = 0 THEN NaN ELSE Max(defined)

\* result['acceleration'] as computed at line 119
acceleration_column(col) ==
    [k \in 1..Len(col) |->
        IF isna(slope_change(col, k)) \/ isna(accel_high(col, k)) THEN NaNRat
        ELSE Rat(50 * slope_change(col, k), accel_high(col, k))]

\* Series.fillna(v) on a column of exact rationals
fillna_rat(col, v) ==
    [k \in 1..Len(col) |-> IF isna_rat(col[k]) THEN v ELSE col[k]]

\* a mutant of current_slope: the loop reads the column after the backfill
current_slope_backfilled(col, k) == bfill(col)[k]

\* result['slope'].iloc[i] as the loop reads it (index k is bar k-1)
current_slope(col, k) == col[k]

\* result['slope'].iloc[i-1]
prev_slope(col, k) == current_slope(col, k - 1)

\* a mutant of SignalStep: an entry leaves the loop's position FLAT
SignalStepForgetsEntry(pos, cur, prev, t) ==
    IF isna(cur) \/ isna(prev) THEN [signal |-> "HOLD", position |-> pos]
    ELSE IF pos = "FLAT" /\ cur > t /\ prev <= t
         THEN [signal |-> "BUY", position |-> "FLAT"]
    ELSE IF pos = "FLAT" /\ cur < -t /\ prev >= -t
         THEN [signal |-> "SELL", position |-> "FLAT"]
    ELSE [signal |-> "HOLD", position |-> pos]

\* a mutant of SignalStep: the LONG exit tests a crossing of 0, not of +t
SignalStepExitAtZero(pos, cur, prev, t) ==
    IF isna(cur) \/ isna(prev) THEN [signal |-> "HOLD", position |-> pos]
    ELSE IF pos = "FLAT"
    THEN IF cur > t /\ prev <= t
         THEN [signal |-> "BUY", position |-> "LONG"]
         ELSE IF cur < -t /\ prev >= -t
         THEN [signal |-> "SELL", position |-> "SHORT"]
         ELSE [signal |-> "HOLD", position |-> pos]
    ELSE IF pos = "LONG"
    THEN IF cur < 0 /\ prev >= 0
         THEN [signal |-> "EXIT_LONG", position |-> "FLAT"]
         ELSE [signal |-> "HOLD", position |-> pos]
    ELSE IF cur > -t /\ prev <= -t
         THEN [signal |-> "EXIT_SHORT", position |-> "FLAT"]
         ELSE [signal |-> "HOLD", position |-> pos]

\* a mutant of SignalStep: an undefined slope resets the position to FLAT
SignalStepNaNResets(pos, cur, prev, t) ==
    IF isna(cur) \/ isna(prev) THEN [signal |-> "HOLD", position |-> "FLAT"]
    ELSE IF pos = "FLAT"
    THEN IF cur > t /\ prev <= t
         THEN [signal |-> "BUY", position |-> "LONG"]
         ELSE IF cur < -t /\ prev >= -t
         THEN [signal |-> "SELL", position |-> "SHORT"]
         ELSE [signal |-> "HOLD", position |-> pos]
    ELSE IF pos = "LONG"
    THEN IF cur < t /\ prev >= t
         THEN [signal |-> "EXIT_LONG", position |-> "FLAT"]
         ELSE [signal |-> "HOLD", position |-> pos]
    ELSE IF cur > -t /\ prev <= -t
         THEN [signal |-> "EXIT_SHORT", position |-> "FLAT"]
         ELSE [signal |-> "HOLD", position |-> pos]

\* one iteration of the loop body, lines 134-159: the signal written for the
\* bar and the value of 'position' after it
SignalStep(pos, cur, prev, t) ==
    IF isna(cur) \/ isna(prev)
    THEN [signal |-> "HOLD", position |-> pos]            \* lines 134-136
    ELSE IF pos = "FLAT"
    THEN IF cur > t /\ prev <= t
         THEN [signal |-> "BUY", position |-> "LONG"]      \* lines 141-143
         ELSE IF cur < -t /\ prev >= -t
         THEN [signal |-> "SELL", position |-> "SHORT"]    \* lines 145-147
         ELSE [signal |-> "HOLD", position |-> pos]
    ELSE IF pos = "LONG"
    THEN IF cur < t /\ prev >= t
         THEN [signal |-> "EXIT_LONG", position |-> "FLAT"]  \* lines 151-153
         ELSE [signal |-> "HOLD", position |-> pos]
    ELSE IF pos = "SHORT"
    THEN IF cur > -t /\ prev <= -t
         THEN [signal |-> "EXIT_SHORT", position |-> "FLAT"] \* lines 157-159
         ELSE [signal |-> "HOLD", position |-> pos]
    ELSE [signal |-> "HOLD", position |-> pos]

RECURSIVE RunSignalLoop(_, _, _)
\* the whole loop of lines 126-159 run on the column col up to bar n-1:
\* the signal column and the final 'position'
RunSignalLoop(col, t, n) ==
    IF n <= 1
    THEN [signal |-> [k \in 1..Len(col) |-> "HOLD"], position |-> "FLAT"]
    ELSE LET before == RunSignalLoop(col, t, n - 1)
             step   == SignalStep(before.position, current_slope(col, n),
                                  prev_slope(col, n), t)
         IN  [signal |-> [before.signal EXCEPT ![n] = step.signal],
              position |-> step.position]

\* lines 97-128: the frame before the loop; every signal starts as HOLD
InitSignal ==
    /\ ntz_threshold \in Thresholds
    /\ rawSlope \in SeqsUpTo(SlopeCells(ntz_threshold), MaxLen)
    /\ slope = rawSlope
    /\ i = IF Len(rawSlope) = 0 THEN 0 ELSE 1
    /\ position = "FLAT"
    /\ signal = [k \in 1..Len(rawSlope) |-> "HOLD"]
    /\ in_ntz = [k \in 1..Len(rawSlope) |-> abs_le(rawSlope[k], ntz_threshold)]
    /\ acceleration = acceleration_column(rawSlope)
    /\ sigPc = "loop"

\* one pass of 'for i in range(1, len(result))', lines 130-159
SignalBar ==
    /\ sigPc = "loop"
    /\ i < Len(slope)
    /\ LET step == SignalStep(position, current_slope(slope, i + 1),
                              prev_slope(slope, i + 1), ntz_threshold)
       IN  /\ signal' = [signal EXCEPT ![i + 1] = step.signal]
           /\ position' = step.position
    /\ i' = i + 1
    /\ UNCHANGED <<rawSlope, slope, ntz_threshold, in_ntz, acceleration, sigPc>>
    /\ UNCHANGED <<engVars, gridVars, wfVars, anVars, cfgVars>>

\* lines 161-169: after the loop the slope column is backfilled, then
\* zero-filled, and the frame is returned
SignalReturn ==
    /\ sigPc = "loop"
    /\ i = Len(slope)
    /\ slope' = fillna(bfill(slope), 0)
    /\ in_ntz' = fillna_True(in_ntz)
    /\ acceleration' = fillna_rat(acceleration, Zero)
    /\ sigPc' = "returned"
    /\ UNCHANGED <<rawSlope, ntz_threshold, i, position, signal>>
    /\ UNCHANGED <<engVars, gridVars, wfVars, anVars, cfgVars>>

\* ------------------------------------------------------------------------
\* BacktestEngine (src/backtesting/engine.py)
\* ------------------------------------------------------------------------

\* initial_capital=10000, the default of __init__
InitialCapital == 10000

\* Python's None, the value of self.entry_time while flat
None == -1

\* commission rates (fraction of notional)
Commissions == {<<0, 1>>, <<1, 10>>}

\* slippage rates (fraction of price)
Slippages == {<<0, 1>>, <<1, 10>>}

\* position_size values, in (0, 1]
PositionSizes == {<<1, 2>>, <<1, 1>>}

\* close prices of a bar
Closes == {100, 110}

\* values of the 'signal' column: the five symbols, a malformed one, and
\* MISSING for a row that has no 'signal' entry
SignalValues ==
    {"BUY", "SELL", "EXIT_LONG", "EXIT_SHORT", "HOLD", "OTHER", "MISSING"}

\* the row after the rows of frame: timestamps are strictly increasing
NextRow(frame, close, sig) ==
    [timestamp |-> Len(frame) + 1, close |-> close, signal |-> sig]

\* __init__ and reset(), lines 24-38
reset(initial_capital, commission, slippage) ==
    [initial_capital |-> initial_capital,
     commission      |-> commission,
     slippage        |-> slippage,
     capital         |-> initial_capital,
     position        |-> Zero,
     position_value  |-> Zero,
     trades          |-> <<>>,
     equity_curve    |-> <<>>,
     in_position     |-> FALSE,
     entry_price     |-> Zero,
     entry_time      |-> None]

\* a mutant of execute_trade: BUY does not test 'not self.in_position'
execute_trade_reenters(self, timestamp, price, sig, psize) ==
    IF sig = "BUY"
    THEN LET buy_price       == RMul(price, RAdd(One, self.slippage))
             position_cost   == RMul(self.capital, psize)
             commission_cost == RMul(position_cost, self.commission)
             quantity        == RDiv(RSub(position_cost, commission_cost), buy_price)
             capital         == RSub(self.capital, position_cost)
         IN  [self EXCEPT
                !.position = quantity, !.capital = capital,
                !.position_value = RMul(quantity, price),
                !.in_position = TRUE, !.entry_price = buy_price,
                !.entry_time = timestamp,
                !.trades = Append(@, [timestamp |-> timestamp, type |-> "BUY",
                                      price |-> buy_price, quantity |-> quantity,
                                      cost |-> position_cost,
                                      commission |-> commission_cost,
                                      capital |-> capital,
                                      position_value |-> RMul(quantity, price)])]
    ELSE IF sig \in {"SELL", "EXIT_LONG"} /\ self.in_position
    THEN LET sell_price      == RMul(price, RSub(One, self.slippage))
             position_value  == RMul(self.position, sell_price)
             commission_cost == RMul(position_value, self.commission)
             capital == RAdd(self.capital, RSub(position_value, commission_cost))
         IN  [self EXCEPT
                !.capital = capital, !.position = Zero, !.position_value = Zero,
                !.in_position = FALSE, !.entry_price = Zero, !.entry_time = None,
                !.trades = Append(@, [timestamp |-> timestamp, type |-> "SELL",
                                      price |-> sell_price, quantity |-> Zero,
                                      value |-> position_value,
                                      commission |-> commission_cost,
                                      capital |-> capital,
                                      profit |-> RSub(position_value,
                                          RMul(self.position, self.entry_price)),
                                      profit_pct |-> RMul(RSub(RDiv(sell_price,
                                          self.entry_price), One), FromInt(100)),
                                      entry_price |-> self.entry_price,
                                      entry_time |-> self.entry_time,
                                      hold_duration |-> timestamp - self.entry_time])]
    ELSE self

\* a mutant of execute_trade: on entry the commission is charged on top of
\* the committed amount
execute_trade_adds_commission(self, timestamp, price, sig, psize) ==
    IF sig = "BUY" /\ ~self.in_position
    THEN LET buy_price       == RMul(price, RAdd(One, self.slippage))
             position_cost   == RMul(self.capital, psize)
             commission_cost == RMul(position_cost, self.commission)
             quantity        == RDiv(position_cost, buy_price)
             capital         == RSub(self.capital,
                                     RAdd(position_cost, commission_cost))
         IN  [self EXCEPT
                !.position = quantity, !.capital = capital,
                !.position_value = RMul(quantity, price),
                !.in_position = TRUE, !.entry_price = buy_price,
                !.entry_time = timestamp,
                !.trades = Append(@, [timestamp |-> timestamp, type |-> "BUY",
                                      price |-> buy_price, quantity |-> quantity,
                                      cost |-> position_cost,
                                      commission |-> commission_cost,
                                      capital |-> capital,
                                      position_value |-> RMul(quantity, price)])]
    ELSE IF sig \in {"SELL", "EXIT_LONG"} /\ self.in_position
    THEN LET sell_price      == RMul(price, RSub(One, self.slippage))
             position_value  == RMul(self.position, sell_price)
             commission_cost == RMul(position_value, self.commission)
             capital == RAdd(self.capital, RSub(position_value, commission_cost))
         IN  [self EXCEPT
                !.capital = capital, !.position = Zero, !.position_value = Zero,
                !.in_position = FALSE, !.entry_price = Zero, !.entry_time = None,
                !.trades = Append(@, [timestamp |-> timestamp, type |-> "SELL",
                                      price |-> sell_price, quantity |-> Zero,
                                      value |-> position_value,
                                      commission |-> commission_cost,
                                      capital |-> capital,
                                      profit |-> RSub(position_value,
                                          RMul(self.position, self.entry_price)),
                                      profit_pct |-> RMul(RSub(RDiv(sell_price,
                                          self.entry_price), One), FromInt(100)),
                                      entry_price |-> self.entry_price,
                                      entry_time |-> self.entry_time,
                                      hold_duration |-> timestamp - self.entry_time])]
    ELSE self

\* execute_trade, lines 40-104
execute_trade(self, timestamp, price, sig, psize) ==
    IF sig = "BUY" /\ ~self.in_position
    THEN \* enter long position, lines 52-72
         LET buy_price       == RMul(price, RAdd(One, self.slippage))
             position_cost   == RMul(self.capital, psize)
             commission_cost == RMul(position_cost, self.commission)
             quantity        == RDiv(RSub(position_cost, commission_cost), buy_price)
             capital         == RSub(self.capital, position_cost)
             position_value  == RMul(quantity, price)
         IN  [self EXCEPT
                !.position       = quantity,
                !.capital        = capital,
                !.position_value = position_value,
                !.in_position    = TRUE,
                !.entry_price    = buy_price,
                !.entry_time     = timestamp,
                !.trades = Append(@, [timestamp      |-> timestamp,
                                      type           |-> "BUY",
                                      price          |-> buy_price,
                                      quantity       |-> quantity,
                                      cost           |-> position_cost,
                                      commission     |-> commission_cost,
                                      capital        |-> capital,
                                      position_value |-> position_value])]
    ELSE IF sig \in {"SELL", "EXIT_LONG"} /\ self.in_position
    THEN \* exit long position, lines 76-104
         LET sell_price      == RMul(price, RSub(One, self.slippage))
             position_value  == RMul(self.position, sell_price)
             commission_cost == RMul(position_value, self.commission)
             profit     == RSub(position_value,
                                RMul(self.position, self.entry_price))
             profit_pct == RMul(RSub(RDiv(sell_price, self.entry_price), One),
                                FromInt(100))
             capital    == RAdd(self.capital,
                                RSub(position_value, commission_cost))
         IN  [self EXCEPT
                !.capital        = capital,
                !.position       = Zero,
                !.position_value = Zero,
                !.in_position    = FALSE,
                \* line 92 reads self.position after line 84 has zeroed it
                !.trades = Append(@, [timestamp     |-> timestamp,
                                      type          |-> "SELL",
                                      price         |-> sell_price,
                                      quantity      |-> Zero,
                                      value         |-> position_value,
                                      commission    |-> commission_cost,
                                      capital       |-> capital,
                                      profit        |-> profit,
                                      profit_pct    |-> profit_pct,
                                      entry_price   |-> self.entry_price,
                                      entry_time    |-> self.entry_time,
                                      hold_duration |->
                                          IF self.entry_time # None
                                             /\ self.entry_time # 0
                                          THEN timestamp - self.entry_time
                                          ELSE None]),
                !.entry_price    = Zero,
                !.entry_time     = None]
    ELSE self

\* a mutant of update_equity: the point carries self.position_value, the
\* value computed when the position was entered
update_equity_stale(self, timestamp, price) ==
    [self EXCEPT
       !.equity_curve = Append(@, [timestamp      |-> timestamp,
                                   equity         |-> RAdd(self.capital,
                                                           self.position_value),
                                   capital        |-> self.capital,
                                   position_value |-> self.position_value,
                                   in_position    |-> self.in_position])]

\* update_equity, lines 106-118
update_equity(self, timestamp, price) ==
    LET held == IF self.in_position THEN RMul(self.position, price) ELSE Zero
    IN  [self EXCEPT
           !.equity_curve = Append(@, [timestamp      |-> timestamp,
                                       equity         |-> RAdd(self.capital, held),
                                       capital        |-> self.capital,
                                       position_value |-> held,
                                       in_position    |-> self.in_position])]

\* row.get('signal', 'HOLD'), line 136
row_get_signal(r) == IF r.signal = "MISSING" THEN "HOLD" ELSE r.signal

\* a mutant of process_row: a signal outside the alphabet skips the rest of
\* the loop body
process_row_skips(self, r, psize) ==
    LET price == FromInt(r.close)
        sig   == row_get_signal(r)
    IN  IF sig \in {"BUY", "SELL", "EXIT_LONG", "EXIT_SHORT"}
        THEN update_equity(execute_trade(self, r.timestamp, price, sig, psize),
                           r.timestamp, price)
        ELSE IF sig = "HOLD" THEN update_equity(self, r.timestamp, price)
        ELSE self

\* the body of 'for idx, row in df.iterrows()', lines 134-143: the engine
\* after the row
process_row(self, r, psize) ==
    LET price  == FromInt(r.close)
        sig    == row_get_signal(r)
        traded == IF sig \in {"BUY", "SELL", "EXIT_LONG", "EXIT_SHORT"}
                  THEN execute_trade(self, r.timestamp, price, sig, psize)
                  ELSE self
    IN  update_equity(traded, r.timestamp, price)

IsSellTrade(t) == t.type = "SELL"

\* trades_df[trades_df['type'] == 'SELL'], line 165
sell_trades(self) == SelectSeq(self.trades, IsSellTrade)

\* the 'profit' column of the SELL trades
Profits(self) ==
    LET st == sell_trades(self) IN [k \in 1..Len(st) |-> st[k].profit]

\* a mutant of get_performance_metrics: the early returns for an empty
\* ledger are missing and the metrics are computed on no trade
get_performance_metrics_computes(self) ==
    IF Len(self.equity_curve) = 0
    THEN [error |-> "No trades executed", total_trades |-> 0]
    ELSE LET st           == SelectSeq(self.trades, IsSellTrade)
             final_equity == self.equity_curve[Len(self.equity_curve)].equity
         IN  [initial_capital |-> self.initial_capital,
              final_equity    |-> final_equity,
              total_return    |-> RMul(RSub(RDiv(final_equity,
                                      self.initial_capital), One), FromInt(100)),
              total_trades    |-> Len(st),
              winning_trades  |-> Cardinality({k \in 1..Len(st) :
                                      RLt(Zero, st[k].profit)}),
              losing_trades   |-> Cardinality({k \in 1..Len(st) :
                                      RLe(st[k].profit, Zero)})]

\* get_performance_metrics, lines 153-223 (the counts and the return figures)
get_performance_metrics(self) ==
    IF Len(self.trades) = 0 \/ Len(self.equity_curve) = 0
    THEN [error |-> "No trades executed", total_trades |-> 0]
    ELSE IF Len(sell_trades(self)) = 0
    THEN [error |-> "No completed trades", total_trades |-> 0]
    ELSE LET st           == sell_trades(self)
             final_equity == self.equity_curve[Len(self.equity_curve)].equity
         IN  [initial_capital |-> self.initial_capital,
              final_equity    |-> final_equity,
              total_return    |-> RMul(RSub(RDiv(final_equity,
                                      self.initial_capital), One), FromInt(100)),
              total_trades    |-> Len(st),
              winning_trades  |-> Cardinality({k \in 1..Len(st) :
                                      RLt(Zero, st[k].profit)}),
              losing_trades   |-> Cardinality({k \in 1..Len(st) :
                                      RLe(st[k].profit, Zero)})]

\* the engine as constructed, and the arguments of run_backtest
InitEngine ==
    /\ \E c \in Commissions, s \in Slippages :
          engine = reset(FromInt(InitialCapital), c, s)
    /\ df = <<>>
    /\ position_size \in PositionSizes
    /\ openAtEnd = FALSE
    /\ returned = [pending |-> TRUE]
    /\ engPc = "loop"

\* one pass of 'for idx, row in df.iterrows()', lines 133-143, on the next
\* row of the frame
BacktestRow ==
    /\ engPc = "loop"
    /\ Len(df) < MaxBars
    /\ \E close \in Closes, sig \in SignalValues :
          LET r == NextRow(df, close, sig)
          IN  /\ df' = Append(df, r)
              /\ engine' = process_row(engine, r, position_size)
    /\ UNCHANGED <<position_size, openAtEnd, returned, engPc>>
    /\ UNCHANGED <<sigVars, gridVars, wfVars, anVars, cfgVars>>

\* the frame has no further row; lines 145-151: close any open position at
\* the last row and return the metrics
BacktestReturn ==
    /\ engPc = "loop"
    /\ openAtEnd' = engine.in_position
    /\ LET closed == IF engine.in_position
                     THEN LET last_row == df[Len(df)]
                          IN  execute_trade(engine, last_row.timestamp,
                                            FromInt(last_row.close), "SELL",
                                            position_size)
                     ELSE engine
       IN  /\ engine' = closed
           /\ returned' = get_performance_metrics(closed)
    /\ engPc' = "done"
    /\ UNCHANGED <<df, position_size>>
    /\ UNCHANGED <<sigVars, gridVars, wfVars, anVars, cfgVars>>

\* ------------------------------------------------------------------------
\* ParameterOptimizer.grid_search (src/backtesting/optimizer.py)
\* ------------------------------------------------------------------------

\* the parameter names of a grid, in the order of param_grid.keys()
ParamNames == <<"smooth_bars", "ntz_threshold">>

\* the grids of two candidate-value lists whose cross-product has at most
\* MaxCombos elements
ParamGrids ==
    {<<[x \in 1..sz[1] |-> x], [y \in 1..sz[2] |-> y]>> :
        sz \in {p \in (1..MaxCombos) \X (1..MaxCombos) : p[1] * p[2] <= MaxCombos}}

\* values of the ranking metric (self.metric) a strategy run can report
MetricValues == {1, 2}

\* what one call of the strategy function does: raise, or return a result
\* with a value of the ranking metric
Outcomes ==
    {[raises |-> TRUE, metric |-> 0]}
        \cup {[raises |-> FALSE, metric |-> m] : m \in MetricValues}

\* list(product(*param_values)), line 56: the last list varies fastest
product(grid) ==
    LET a == Len(grid[1])
        b == Len(grid[2])
    IN  [k \in 1..(a * b) |->
            <<grid[1][((k - 1) \div b) + 1], grid[2][((k - 1) % b) + 1]>>]

\* the combinations of the grid under search
combinations == product(param_grid)

\* a mutant of run_combination: no try/except, the exception of a failing
\* combination leaves grid_search
run_combination_unguarded(res, errs, outcome, combo) ==
    IF outcome.raises
    THEN [results |-> res, errors |-> errs, propagates |-> TRUE]
    ELSE [results |-> Append(res, [metric |-> outcome.metric, params |-> combo]),
          errors |-> errs, propagates |-> FALSE]

\* the try/except block around one combination, lines 67-73 (sequential,
\* around the call) and 85-92 (parallel, around future.result()): the lists
\* after it, and whether an exception leaves grid_search
run_combination(res, errs, outcome, combo) ==
    IF outcome.raises
    THEN [results |-> res, errors |-> Append(errs, combo), propagates |-> FALSE]
    ELSE [results |-> Append(res, [metric |-> outcome.metric, params |-> combo]),
          errors |-> errs, propagates |-> FALSE]

\* r goes after every row of the sorted frame whose metric is not smaller
InsertDescending(sorted, r) ==
    LET before == {k \in 1..Len(sorted) : sorted[k].metric >= r.metric}
        n      == Cardinality(before)
    IN  SubSeq(sorted, 1, n) \o <<r>> \o SubSeq(sorted, n + 1, Len(sorted))

\* r goes after every row of the sorted frame whose metric is not larger
InsertAscending(sorted, r) ==
    LET before == {k \in 1..Len(sorted) : sorted[k].metric <= r.metric}
        n      == Cardinality(before)
    IN  SubSeq(sorted, 1, n) \o <<r>> \o SubSeq(sorted, n + 1, Len(sorted))

RECURSIVE sort_values_ascending(_)
\* a mutant of sort_values: the default ascending=True
sort_values_ascending(rows) ==
    IF Len(rows) = 0 THEN <<>>
    ELSE InsertAscending(sort_values_ascending(SubSeq(rows, 1, Len(rows) - 1)),
                         rows[Len(rows)])

RECURSIVE sort_values(_)
\* results_df.sort_values(self.metric, ascending=False), line 104: rows in
\* non-increasing metric order; rows with equal metric keep the order they
\* have in the frame (on frames this short the sort is an insertion sort)
sort_values(rows) ==
    IF Len(rows) = 0 THEN <<>>
    ELSE InsertDescending(sort_values(SubSeq(rows, 1, Len(rows) - 1)),
                          rows[Len(rows)])

\* lines 95-100: the frame built from the list, one row per result, with
\* the params dictionary expanded into one column per parameter
DataFrame(res) ==
    [k \in 1..Len(res) |->
        [metric        |-> res[k].metric,
         smooth_bars   |-> res[k].params[1],
         ntz_threshold |-> res[k].params[2]]]

\* get_best_params, lines 109-121, on the frame stored in self.results: the
\* parameter columns of its first row, in the order of ParamNames; the empty
\* dictionary (no keyword argument at all) when the frame has no row
get_best_params(self_results) ==
    IF Len(self_results) = 0 THEN <<>>
    ELSE LET best_row == self_results[1]
         IN  <<best_row.smooth_bars, best_row.ntz_threshold>>

\* a mutant of future_combo: the combination is taken by arrival position,
\* the n-th future yielded being paired with the n-th combination
future_combo_by_arrival(k) ==
    combinations[Cardinality({j \in DOMAIN futures : futures[j] = "yielded"}) + 1]

\* combo = futures[future], line 84: the dictionary built at lines 77-80 maps
\* each future to the combination it was submitted with
future_combo(k) == combinations[k]

\* the futures a worker process is running: the pool starts the submitted
\* calls in submission order, at most n_jobs at a time
Running ==
    {k \in DOMAIN futures :
        /\ futures[k] = "pending"
        /\ Cardinality({j \in 1..(k - 1) : futures[j] = "pending"}) < n_jobs}

\* the sequential loop has a combination left
MoreCombinations == gsPc = "sequential" /\ cursor <= Len(combinations)

\* the futures as_completed can yield next
Finished == {k \in DOMAIN futures : futures[k] = "finished"}

\* grid_search is entered, lines 53-60
InitGrid ==
    /\ param_grid \in ParamGrids
    /\ strategy \in [1..Len(product(param_grid)) -> Outcomes]
    /\ n_jobs \in {1, 2}
    /\ cursor = 1
    /\ calls = [k \in 1..Len(product(param_grid)) |-> 0]
    /\ futures = <<>>
    /\ results = <<>>
    /\ errors = <<>>
    /\ results_df = <<>>
    /\ gsPc = IF n_jobs = 1 THEN "sequential" ELSE "submit"

\* sequential mode, lines 65-73: the next combination is run
GridSequentialCombo ==
    /\ MoreCombinations
    /\ LET after == run_combination(results, errors, strategy[cursor],
                                    combinations[cursor])
       IN  /\ results' = after.results
           /\ errors' = after.errors
           /\ gsPc' = IF after.propagates THEN "raised" ELSE gsPc
    /\ calls' = [calls EXCEPT ![cursor] = @ + 1]
    /\ cursor' = cursor + 1
    /\ UNCHANGED <<param_grid, strategy, n_jobs, futures, results_df>>
    /\ UNCHANGED <<sigVars, engVars, wfVars, anVars, cfgVars>>

\* parallel mode, lines 76-80: every combination is submitted to the pool
GridSubmit ==
    /\ gsPc = "submit"
    /\ futures' = [k \in 1..Len(combinations) |-> "pending"]
    /\ gsPc' = "parallel"
    /\ UNCHANGED <<param_grid, strategy, n_jobs, cursor, calls, results, errors,
                   results_df>>
    /\ UNCHANGED <<sigVars, engVars, wfVars, anVars, cfgVars>>

\* a worker process makes the call of a combination it was handed and
\* finishes it
GridWorkerCompletes ==
    /\ gsPc = "parallel"
    /\ \E k \in Running :
          /\ futures' = [futures EXCEPT ![k] = "finished"]
          /\ calls' = [calls EXCEPT ![k] = @ + 1]
    /\ UNCHANGED <<param_grid, strategy, n_jobs, cursor, results, errors,
                   results_df, gsPc>>
    /\ UNCHANGED <<sigVars, engVars, wfVars, anVars, cfgVars>>

\* parallel mode, lines 83-92: as_completed yields a finished future, in any
\* order among the finished ones, and its result is collected
GridAsCompleted ==
    /\ gsPc = "parallel"
    /\ \E k \in Finished :
          /\ futures' = [futures EXCEPT ![k] = "yielded"]
          /\ LET after == run_combination(results, errors, strategy[k],
                                          future_combo(k))
             IN  /\ results' = after.results
                 /\ errors' = after.errors
                 /\ gsPc' = IF after.propagates THEN "raised" ELSE gsPc
    /\ UNCHANGED <<param_grid, strategy, n_jobs, cursor, calls, results_df>>
    /\ UNCHANGED <<sigVars, engVars, wfVars, anVars, cfgVars>>

\* every combination has been handled
AllHandled ==
    \/ gsPc = "sequential" /\ cursor > Len(combinations)
    \/ gsPc = "parallel" /\ \A k \in DOMAIN futures : futures[k] = "yielded"

\* lines 94-107: the frame is built, sorted by the metric and returned
GridReturn ==
    /\ AllHandled
    /\ results_df' = sort_values(DataFrame(results))
    /\ gsPc' = "done"
    /\ UNCHANGED <<param_grid, strategy, n_jobs, cursor, calls, futures, results,
                   errors>>
    /\ UNCHANGED <<sigVars, engVars, wfVars, anVars, cfgVars>>

\* the host aborts the search while grid_search is running: the interrupt is
\* no Exception, so neither handler (lines 71, 89) catches it and it leaves
\* grid_search before lines 95-107 are reached; the local list of results
\* goes with the frame and self.results keeps the value it had
GridAbort ==
    /\ gsPc \in {"sequential", "submit", "parallel"}
    /\ results' = <<>>
    /\ gsPc' = "aborted"
    /\ UNCHANGED <<param_grid, strategy, n_jobs, cursor, calls, futures, errors,
                   results_df>>
    /\ UNCHANGED <<sigVars, engVars, wfVars, anVars, cfgVars>>

\* ------------------------------------------------------------------------
\* walk_forward_analysis (src/backtesting/optimizer.py)
\* ------------------------------------------------------------------------

\* longest frame of the bounded inputs
MaxData == 6

\* train_size values of the bounded inputs
TrainSizes == {2, 4}

\* test_size values of the bounded inputs
TestSizes == {1, 2}

\* <<len(data), train_size, test_size>>: the bounded inputs, and the frame of
\* 300 bars walked with train_size=100 and test_size=50
WalkForwardInputs ==
    {<<n, tr, te>> : n \in 0..MaxData, tr \in TrainSizes, te \in TestSizes}
        \cup {<<300, 100, 50>>}

\* the param_grid walked: one smooth_bars value, two ntz_threshold values
WalkForwardGrid == <<<<1>>, <<1, 2>>>>

\* n_windows = (len(data) - train_size) // test_size, line 191
n_windows(n, tr, te) == (n - tr) \div te

\* a mutant of train_start_of: each window starts where the previous one's
\* test slice ended
train_start_rolling(w, tr, te) == w * (tr + te)

\* train_start = i * test_size, line 195
train_start_of(w, tr, te) == w * te

\* lines 195-198: the four slice bounds of window w
window_bounds(w, tr, te) ==
    LET train_start == train_start_of(w, tr, te)
        train_end   == train_start + tr
        test_start  == train_end
        test_end    == test_start + te
    IN  [train_start |-> train_start, train_end |-> train_end,
         test_start |-> test_start, test_end |-> test_end]

\* np.mean of a list of numbers: NaN (with a warning) on the empty list
mean(xs) ==
    IF Len(xs) = 0 THEN NaN
    ELSE Rat(RSum([k \in 1..Len(xs) |-> FromInt(xs[k])])[1], Len(xs))

\* 'for i in range(n_windows)' has a window left and line 200 does not break
MoreWindows ==
    /\ window < n_windows(data_len, train_size, test_size)
    /\ window_bounds(window, train_size, test_size).test_end <= data_len

\* walk_forward_analysis is entered, lines 189-192
InitWalkForward ==
    /\ \E inp \in WalkForwardInputs :
          data_len = inp[1] /\ train_size = inp[2] /\ test_size = inp[3]
    /\ window = 0
    /\ all_results = <<>>
    /\ wf_returned = [pending |-> TRUE]
    /\ wfPc = "loop"
    /\ param_grid = WalkForwardGrid
    /\ strategy = <<>> /\ n_jobs = 1 /\ cursor = 0 /\ calls = <<>>
    /\ futures = <<>> /\ results = <<>> /\ errors = <<>> /\ results_df = <<>>
    /\ gsPc = "idle"

\* lines 194-207: the bounds of the next window are computed and
\* optimizer.grid_search is entered on its train slice, with n_jobs=1; what
\* the strategy does on this slice is drawn for every combination.  The
\* optimizer object is the same for every window: self.results keeps the
\* frame of the previous search until line 106 replaces it
WalkForwardSearch ==
    /\ wfPc = "loop"
    /\ MoreWindows
    /\ strategy' \in [1..Len(combinations) -> Outcomes]
    /\ cursor' = 1
    /\ calls' = [k \in 1..Len(combinations) |-> 0]
    /\ results' = <<>>
    /\ errors' = <<>>
    /\ gsPc' = "sequential"
    /\ wfPc' = "search"
    /\ UNCHANGED <<param_grid, n_jobs, futures, results_df>>
    /\ UNCHANGED <<data_len, train_size, test_size, window, all_results,
                   wf_returned>>
    /\ UNCHANGED <<sigVars, engVars, anVars, cfgVars>>

\* lines 208-222: grid_search has returned; the best parameters are read,
\* the strategy is called on the test slice with them as keyword arguments
\* and the window is recorded.  An exception of that call is not caught
WalkForwardTest ==
    /\ wfPc = "search"
    /\ gsPc = "done"
    /\ LET best_params == get_best_params(results_df)
           b           == window_bounds(window, train_size, test_size)
       IN  \E outcome \in Outcomes :
              IF outcome.raises
              THEN /\ wfPc' = "raised"
                   /\ UNCHANGED <<window, all_results>>
              ELSE /\ all_results' = Append(all_results,
                          [window      |-> window,
                           train_start |-> b.train_start,
                           train_end   |-> b.train_end,
                           test_start  |-> b.test_start,
                           test_end    |-> b.test_end,
                           best_params |-> best_params,
                           test_result |-> [kwargs       |-> best_params,
                                            sharpe_ratio |-> outcome.metric]])
                   /\ window' = window + 1
                   /\ wfPc' = "loop"
    /\ UNCHANGED <<data_len, train_size, test_size, wf_returned>>
    /\ UNCHANGED <<sigVars, engVars, gridVars, anVars, cfgVars>>

\* lines 224-228: the loop is over; the windows and the mean of their test
\* metric are returned
WalkForwardReturn ==
    /\ wfPc = "loop"
    /\ ~MoreWindows
    /\ wf_returned' =
          [windows         |-> all_results,
           avg_test_sharpe |->
               mean([k \in 1..Len(all_results) |->
                        all_results[k].test_result.sharpe_ratio])]
    /\ wfPc' = "done"
    /\ UNCHANGED <<data_len, train_size, test_size, window, all_results>>
    /\ UNCHANGED <<sigVars, engVars, gridVars, anVars, cfgVars>>

\* ------------------------------------------------------------------------
\* BacktestAnalyzer (src/backtesting/analyzer.py)
\* ------------------------------------------------------------------------

\* longest trade ledger
MaxTrades == 3

\* calls of calculate_metrics on one analyzer
MaxCalls == 2

\* values of the 'pnl' column: a loss, a break-even trade, two wins
PnLs == {-1, 0, 1, 2}

\* the +infinity sentinel np.inf of a metric held as an exact rational
Inf == <<1, 0>>

\* the trades frames: with or without the entry_time and exit_time columns;
\* the k-th trade is entered at time 2k-1 and exited at time 2k
TradeFrames ==
    {[columns |-> {"pnl", "entry_time", "exit_time"},
      rows    |-> [k \in 1..Len(p) |->
                      [pnl |-> p[k], entry_time |-> 2 * k - 1,
                       exit_time |-> 2 * k]]] : p \in SeqsUpTo(PnLs, MaxTrades)}
    \cup
    {[columns |-> {"pnl"},
      rows    |-> [k \in 1..Len(p) |-> [pnl |-> p[k]]]] :
          p \in SeqsUpTo(PnLs, MaxTrades)}

\* the equity frame that goes with a trades frame: the capital after each
\* trade
EquityOf(frame, initial_capital) ==
    [columns |-> {"timestamp", "equity"},
     rows    |-> [k \in 1..Len(frame.rows) |->
                     [timestamp |-> 2 * k,
                      equity    |-> initial_capital
                          + RSum([j \in 1..k |-> FromInt(frame.rows[j].pnl)])[1]]]]

\* the 'pnl' column
pnl_column(frame) == [k \in 1..Len(frame.rows) |-> frame.rows[k].pnl]

IsWin(x) == x > 0

IsLoss(x) == x < 0

\* Series.sum() of a column of integers
sum(xs) == RSum([k \in 1..Len(xs) |-> FromInt(xs[k])])[1]

RECURSIVE streak_loop(_, _)
\* the loop of _calculate_streaks, lines 140-148, after the first n trades
streak_loop(wins, n) ==
    IF n = 0
    THEN [max_win_streak |-> 0, max_loss_streak |-> 0,
          current_win_streak |-> 0, current_loss_streak |-> 0]
    ELSE LET before == streak_loop(wins, n - 1)
         IN  IF wins[n]
             THEN LET cur == before.current_win_streak + 1
                  IN  [before EXCEPT
                         !.current_win_streak = cur,
                         !.current_loss_streak = 0,
                         !.max_win_streak = IF cur > @ THEN cur ELSE @]
             ELSE LET cur == before.current_loss_streak + 1
                  IN  [before EXCEPT
                         !.current_loss_streak = cur,
                         !.current_win_streak = 0,
                         !.max_loss_streak = IF cur > @ THEN cur ELSE @]

\* _calculate_streaks, lines 129-150: <<max_win_streak, max_loss_streak>>
calculate_streaks(frame) ==
    IF Len(frame.rows) = 0 THEN <<0, 0>>
    ELSE LET pnl  == pnl_column(frame)
             wins == [k \in 1..Len(pnl) |-> pnl[k] > 0]
             out  == streak_loop(wins, Len(wins))
         IN  <<out.max_win_streak, out.max_loss_streak>>

\* _empty_metrics, lines 103-127 (the metrics modelled)
empty_metrics ==
    [total_trades |-> 0, winning_trades |-> 0, losing_trades |-> 0,
     total_pnl |-> 0, profit_factor |-> Zero,
     max_consecutive_wins |-> 0, max_consecutive_losses |-> 0]

\* lines 84-86: self.trades['duration'] = exit_time - entry_time is assigned
\* on the frame itself when it has both time columns
with_duration(frame) ==
    IF {"entry_time", "exit_time"} \subseteq frame.columns
    THEN [columns |-> frame.columns \cup {"duration"},
          rows    |-> [k \in 1..Len(frame.rows) |->
                          [pnl        |-> frame.rows[k].pnl,
                           entry_time |-> frame.rows[k].entry_time,
                           exit_time  |-> frame.rows[k].exit_time,
                           duration   |-> frame.rows[k].exit_time
                                             - frame.rows[k].entry_time]]]
    ELSE frame

\* calculate_metrics, lines 31-101: the dictionary returned (counts, total
\* pnl, profit factor and streaks) and the trades frame as the call leaves it
calculate_metrics(frame) ==
    IF Len(frame.rows) = 0
    THEN [metrics |-> empty_metrics, trades |-> frame]
    ELSE LET pnl            == pnl_column(frame)
             winning_trades == SelectSeq(pnl, IsWin)
             losing_trades  == SelectSeq(pnl, IsLoss)
             gross_profit   == IF Len(winning_trades) > 0
                               THEN sum(winning_trades) ELSE 0
             gross_loss     == IF Len(losing_trades) > 0
                               THEN Abs(sum(losing_trades)) ELSE 0
             after          == with_duration(frame)
             streaks        == calculate_streaks(after)
         IN  [metrics |->
                 [total_trades   |-> Len(pnl),
                  winning_trades |-> Len(winning_trades),
                  losing_trades  |-> Len(losing_trades),
                  total_pnl      |-> sum(pnl),
                  profit_factor  |-> IF gross_loss > 0
                                     THEN Rat(gross_profit, gross_loss)
                                     ELSE Inf,
                  max_consecutive_wins   |-> streaks[1],
                  max_consecutive_losses |-> streaks[2]],
              trades |-> after]

\* BacktestAnalyzer(trades, equity_curve, initial_capital), lines 18-29
InitAnalyzer ==
    /\ an_trades \in TradeFrames
    /\ an_equity = EquityOf(an_trades, InitialCapital)
    /\ an_metrics = [pending |-> TRUE]
    /\ an_calls = 0

\* analyzer.calculate_metrics() is called
CalculateMetrics ==
    /\ an_calls < MaxCalls
    /\ LET out == calculate_metrics(an_trades)
       IN  /\ an_metrics' = out.metrics
           /\ an_trades' = out.trades
    /\ an_calls' = an_calls + 1
    /\ UNCHANGED an_equity
    /\ UNCHANGED <<sigVars, engVars, gridVars, wfVars, cfgVars>>

\* ------------------------------------------------------------------------
\* calculate_ema_slope: what a call does with its parameters
\* (src/indicators/ema_slope.py, lines 75-169)
\* ------------------------------------------------------------------------

\* the ma_type values: the default and a name calculate_ma does not know
MaTypes == {"EMA", "XMA"}

\* ma_length values, in and out of range
MaLengths == {-1, 0, 1, 2}

\* smooth_bars values, in and out of range
SmoothBars == {0, 1, 3}

\* ntz_threshold values, in and out of range
NtzThresholds == {-1, 0, 10}

\* lookback values, in and out of range
Lookbacks == {0, 1, 2}

\* calculate_ma, lines 47-72, with ema, line 12: an unknown ma_type raises
\* ValueError at line 72; Series.ewm(span=length) raises ValueError for a
\* span below 1
calculate_ma_raises(ma_type, length) ==
    IF ma_type = "EMA" THEN length < 1 ELSE TRUE

\* lines 108-109: Series.rolling(window=lookback, min_periods=1) raises
\* ValueError when the window is smaller than min_periods
rolling_raises(lookback) == lookback < 1

\* calculate_ema_slope is called
InitConfig ==
    /\ cfg \in [ma_type : MaTypes, ma_length : MaLengths,
                smooth_bars : SmoothBars, ntz_threshold : NtzThresholds,
                lookback : Lookbacks]
    /\ cfgPc = "entered"

\* lines 95-98: the frame is copied and the moving average computed
ConfigMovingAverage ==
    /\ cfgPc = "entered"
    /\ cfgPc' = IF calculate_ma_raises(cfg.ma_type, cfg.ma_length)
                THEN "raised" ELSE "ma"
    /\ UNCHANGED cfg
    /\ UNCHANGED <<sigVars, engVars, gridVars, wfVars, anVars>>

\* lines 100-113: ma_diff = ma - ma.shift(smooth_bars), its rolling range
\* over lookback bars and the slope column
ConfigSlope ==
    /\ cfgPc = "ma"
    /\ cfgPc' = IF rolling_raises(cfg.lookback) THEN "raised" ELSE "slope"
    /\ UNCHANGED cfg
    /\ UNCHANGED <<sigVars, engVars, gridVars, wfVars, anVars>>

\* lines 115-169: acceleration, in_ntz against ntz_threshold, the signal
\* loop and the clean-up; the frame is returned
ConfigReturn ==
    /\ cfgPc = "slope"
    /\ cfgPc' = "returned"
    /\ UNCHANGED cfg
    /\ UNCHANGED <<sigVars, engVars, gridVars, wfVars, anVars>>

\* ------------------------------------------------------------------------
\* Specifications
\* ------------------------------------------------------------------------

\* no calculate_ema_slope call in progress
IdleSignal ==
    /\ rawSlope = <<>> /\ slope = <<>> /\ ntz_threshold = 0 /\ i = 0
    /\ position = "FLAT" /\ signal = <<>> /\ in_ntz = <<>>
    /\ acceleration = <<>> /\ sigPc = "idle"

\* no run_backtest call in progress
IdleEngine ==
    /\ engine = [idle |-> TRUE] /\ df = <<>> /\ position_size = Zero
    /\ openAtEnd = FALSE /\ returned = [pending |-> TRUE]
    /\ engPc = "idle"

\* no grid_search call in progress
IdleGrid ==
    /\ param_grid = <<>> /\ strategy = <<>> /\ n_jobs = 0 /\ cursor = 0
    /\ calls = <<>> /\ futures = <<>> /\ results = <<>> /\ errors = <<>> /\ results_df = <<>>
    /\ gsPc = "idle"

\* no walk_forward_analysis call in progress
IdleWalkForward ==
    /\ data_len = 0 /\ train_size = 0 /\ test_size = 0 /\ window = 0
    /\ all_results = <<>> /\ wf_returned = [pending |-> TRUE]
    /\ wfPc = "idle"

\* no analyzer constructed
IdleAnalyzer ==
    /\ an_trades = [idle |-> TRUE] /\ an_equity = [idle |-> TRUE]
    /\ an_metrics = [pending |-> TRUE] /\ an_calls = 0

\* no parameter handling under study
IdleConfig == cfg = [idle |-> TRUE] /\ cfgPc = "idle"

NextSignal == SignalBar \/ SignalReturn

\* calculate_ema_slope on every slope series of the bounds
InitSignalOnly ==
    InitSignal /\ IdleEngine /\ IdleGrid /\ IdleWalkForward /\ IdleAnalyzer
        /\ IdleConfig

SpecSignal == InitSignalOnly /\ [][NextSignal]_vars

NextEngine == BacktestRow \/ BacktestReturn

\* run_backtest on every frame of the bounds
InitEngineOnly ==
    InitEngine /\ IdleSignal /\ IdleGrid /\ IdleWalkForward /\ IdleAnalyzer
        /\ IdleConfig

SpecEngine == InitEngineOnly /\ [][NextEngine]_vars

NextGrid ==
    \/ GridSequentialCombo
    \/ GridSubmit
    \/ GridWorkerCompletes
    \/ GridAsCompleted
    \/ GridReturn

\* grid_search on every grid and strategy of the bounds, in both modes
InitGridOnly ==
    InitGrid /\ IdleSignal /\ IdleEngine /\ IdleWalkForward /\ IdleAnalyzer
        /\ IdleConfig

SpecGrid == InitGridOnly /\ [][NextGrid]_vars

NextGridAbort ==
    \/ GridSequentialCombo
    \/ GridSubmit
    \/ GridWorkerCompletes
    \/ GridAsCompleted
    \/ GridReturn
    \/ GridAbort

\* grid_search as in SpecGrid, with a host that may abort it at any point
SpecGridAbort == InitGridOnly /\ [][NextGridAbort]_vars

NextWalkForward ==
    \/ WalkForwardSearch
    \/ GridSequentialCombo
    \/ GridReturn
    \/ WalkForwardTest
    \/ WalkForwardReturn

\* walk_forward_analysis on every input of the bounds
InitWalkForwardOnly ==
    InitWalkForward /\ IdleSignal /\ IdleEngine /\ IdleAnalyzer
        /\ IdleConfig

SpecWalkForward == InitWalkForwardOnly /\ [][NextWalkForward]_vars

NextAnalyzer == CalculateMetrics

\* calculate_metrics, called up to MaxCalls times, on every ledger of the
\* bounds
InitAnalyzerOnly ==
    InitAnalyzer /\ IdleSignal /\ IdleEngine /\ IdleGrid /\ IdleWalkForward
        /\ IdleConfig

SpecAnalyzer == InitAnalyzerOnly /\ [][NextAnalyzer]_vars

NextConfig == ConfigMovingAverage \/ ConfigSlope \/ ConfigReturn

\* calculate_ema_slope on every parameter setting of the sets above
InitConfigOnly ==
    InitConfig /\ IdleSignal /\ IdleEngine /\ IdleGrid /\ IdleWalkForward
        /\ IdleAnalyzer

SpecConfig == InitConfigOnly /\ [][NextConfig]_vars

\* ------------------------------------------------------------------------
\* Properties of the signal loop
\* ------------------------------------------------------------------------

IsTradeSignal(x) == x # "HOLD"

\* the non-HOLD signals of a signal column, in bar order
NonHold(col) == SelectSeq(col, IsTradeSignal)

\* C1: in every signal column the loop produces, the non-HOLD signals
\* strictly alternate entry/exit: the first is BUY or SELL, the one after a
\* BUY is EXIT_LONG, the one after a SELL is EXIT_SHORT, and an EXIT_* only
\* follows its matching entry, so no two entries occur without an exit.
C1_SignalsAlternate ==
    LET nh == NonHold(signal)
    IN  /\ Len(nh) > 0 => nh[1] \in {"BUY", "SELL"}
        /\ \A k \in 1..Len(nh) :
              /\ nh[k] \in {"BUY", "SELL", "EXIT_LONG", "EXIT_SHORT"}
              /\ (nh[k] = "BUY" /\ k < Len(nh)) => nh[k + 1] = "EXIT_LONG"
              /\ (nh[k] = "SELL" /\ k < Len(nh)) => nh[k + 1] = "EXIT_SHORT"
              /\ nh[k] = "EXIT_LONG" => (k > 1 /\ nh[k - 1] = "BUY")
              /\ nh[k] = "EXIT_SHORT" => (k > 1 /\ nh[k - 1] = "SELL")

\* C1 witness: a long round trip followed by a short round trip
C1_Witness == NonHold(signal) = <<"BUY", "EXIT_LONG", "SELL", "EXIT_SHORT">>

\* the seven rows of the transition table of the specification, in order:
\* <<current state, condition, emitted signal, next state>>
TransitionTable(cur, prev, t) ==
    << <<"FLAT",  cur > t /\ prev <= t,    "BUY",        "LONG">>,
       <<"FLAT",  cur < -t /\ prev >= -t,  "SELL",       "SHORT">>,
       <<"FLAT",  TRUE,                    "HOLD",       "FLAT">>,
       <<"LONG",  cur < t /\ prev >= t,    "EXIT_LONG",  "FLAT">>,
       <<"LONG",  TRUE,                    "HOLD",       "LONG">>,
       <<"SHORT", cur > -t /\ prev <= -t,  "EXIT_SHORT", "FLAT">>,
       <<"SHORT", TRUE,                    "HOLD",       "SHORT">> >>

\* the first row of the table that applies in state st
TableRow(st, cur, prev, t) ==
    LET tab == TransitionTable(cur, prev, t)
        k   == CHOOSE r \in 1..Len(tab) :
                  /\ tab[r][1] = st /\ tab[r][2]
                  /\ \A q \in 1..(r - 1) : ~(tab[q][1] = st /\ tab[q][2])
    IN  tab[k]

\* C6: the loop starts FLAT, bar 0 always emits HOLD, and for every bar
\* i >= 1 whose slope[i] and slope[i-1] are both defined the signal emitted
\* and the next position state are those of the seven-row transition table.
C6_FollowsTransitionTable ==
    /\ []((i <= 1 /\ sigPc = "loop") => position = "FLAT")
    /\ [](Len(signal) > 0 => signal[1] = "HOLD")
    /\ [][(i' = i + 1 /\ ~isna(rawSlope[i + 1]) /\ ~isna(rawSlope[i]))
            => LET row == TableRow(position, rawSlope[i + 1], rawSlope[i],
                                   ntz_threshold)
               IN  signal'[i + 1] = row[3] /\ position' = row[4]]_vars

\* C6 witness: a short entry decided on two defined slopes
C6_Witness ==
    /\ i >= 2 /\ position = "SHORT" /\ signal[i] = "SELL"
    /\ ~isna(rawSlope[i]) /\ ~isna(rawSlope[i - 1])

\* bar k (index k) has an undefined current or previous slope
UndefinedPair(k) == isna(rawSlope[k]) \/ isna(rawSlope[k - 1])

\* C7: a bar whose slope[i] or slope[i-1] is undefined emits HOLD and
\* leaves the position state unchanged, so the state entered before a run
\* of such bars is still the state in effect after it.
C7_UndefinedSlopeHolds ==
    /\ [][(i' = i + 1 /\ UndefinedPair(i + 1))
            => (signal'[i + 1] = "HOLD" /\ position' = position)]_vars
    /\ [](\A a \in 1..i :
            (\A k \in (a + 1)..i : UndefinedPair(k))
               => position = RunSignalLoop(rawSlope, ntz_threshold, a).position)

\* C7 witness: LONG was entered, two bars with an undefined pair followed,
\* the state is still LONG and the next bar has two defined slopes
C7_Witness ==
    /\ i >= 4 /\ Len(rawSlope) > i /\ position = "LONG"
    /\ signal[i - 2] = "BUY"
    /\ isna(rawSlope[i - 1])
    /\ ~isna(rawSlope[i]) /\ ~isna(rawSlope[i + 1])

\* C8: no look-ahead: the signals of bars 0..n are those the loop produces
\* on the series cut after bar n, whatever the later bars are; they are
\* decided on the slope column before its undefined cells are backfilled.
C8_NoLookAhead ==
    \A n \in 1..i :
        SubSeq(signal, 1, n) =
            RunSignalLoop(SubSeq(rawSlope, 1, n), ntz_threshold, n).signal

\* C8 witness: an undefined cell that the clean-up backfilled with a later
\* value above the threshold, and whose bar nevertheless emitted HOLD
C8_Witness ==
    /\ sigPc = "returned" /\ Len(rawSlope) >= 3
    /\ rawSlope[1] <= ntz_threshold /\ ~isna(rawSlope[1])
    /\ isna(rawSlope[2])
    /\ ~isna(rawSlope[3]) /\ rawSlope[3] > ntz_threshold
    /\ slope[2] = rawSlope[3]
    /\ signal[2] = "HOLD" /\ signal[3] = "HOLD"

\* C20 (as claimed): in the returned frame in_ntz[i] is true exactly when
\* the slope computed at bar i is undefined or |slope[i]| <= ntz_threshold,
\* so a series whose slope is undefined at every bar is in-NTZ at every bar.
C20_InNtzClassification ==
    sigPc = "returned" =>
        \A k \in 1..Len(in_ntz) :
            in_ntz[k] <=>
                (isna(rawSlope[k]) \/ Abs(rawSlope[k]) <= ntz_threshold)

\* the first cell at or after bar k that is defined
NearestDefined(col, k, undefined(_)) ==
    LET later == {j \in k..Len(col) : ~undefined(col[j])}
    IN  IF later = {} THEN 0
        ELSE CHOOSE j \in later : \A m \in later : j <= m

\* C21 (as claimed): in the returned frame every bar whose slope or
\* acceleration was undefined holds the nearest later defined value of the
\* same column, or 0 when there is none, the defined cells are kept, and no
\* slope or acceleration cell is undefined.
C21_BackfilledThenZero ==
    sigPc = "returned" =>
        LET computed == acceleration_column(rawSlope)
        IN  \A k \in 1..Len(rawSlope) :
               LET s == NearestDefined(rawSlope, k, isna)
                   a == NearestDefined(computed, k, isna_rat)
               IN  /\ ~isna(slope[k]) /\ ~isna_rat(acceleration[k])
                   /\ slope[k] = IF s = 0 THEN 0 ELSE rawSlope[s]
                   /\ acceleration[k] = IF a = 0 THEN Zero ELSE computed[a]

\* a parameter of the call is out of range
OutOfRange ==
    \/ cfg.ma_length <= 0
    \/ cfg.smooth_bars < 1
    \/ cfg.ntz_threshold <= 0
    \/ cfg.lookback < 1

\* C23 (as claimed): a call with an out-of-range parameter (ma_length <= 0,
\* smooth_bars < 1, ntz_threshold <= 0 or lookback < 1) fails before any
\* indicator value or signal is produced and never returns a frame.
C23_InvalidConfigurationFails ==
    OutOfRange => cfgPc \notin {"slope", "returned"}

\* ------------------------------------------------------------------------
\* Properties of the backtest engine
\* ------------------------------------------------------------------------

\* number of ledger records of the given type
CountType(trades, type) == Cardinality({k \in 1..Len(trades) : trades[k].type = type})

\* C2: for any signal sequence, after every bar the number of entry records
\* minus the number of exit records is 0 or 1 and equals in_position; each
\* entry record is paired with the exit record that follows it; and when
\* run_backtest returns the engine is flat with every entry paired, a
\* position open after the last bar being closed at the last bar's close.
C2_OnePositionPaired ==
    LET tr   == engine.trades
        open == CountType(tr, "BUY") - CountType(tr, "SELL")
    IN  /\ open \in {0, 1}
        /\ (open = 1) <=> engine.in_position
        /\ \A k \in 1..Len(tr) :
              /\ tr[k].type = (IF k % 2 = 1 THEN "BUY" ELSE "SELL")
              /\ tr[k].type = "SELL" =>
                    /\ tr[k].entry_time = tr[k - 1].timestamp
                    /\ tr[k].entry_price = tr[k - 1].price
        /\ engPc = "done" =>
              /\ ~engine.in_position
              /\ open = 0
              /\ openAtEnd =>
                    /\ tr[Len(tr)].type = "SELL"
                    /\ tr[Len(tr)].timestamp = df[Len(df)].timestamp
                    /\ tr[Len(tr)].price =
                          RMul(FromInt(df[Len(df)].close),
                               RSub(One, engine.slippage))

\* C2 witness: two entries, the second one closed by the forced close
C2_Witness ==
    /\ engPc = "done" /\ openAtEnd /\ Len(engine.trades) = 4
    /\ \E k \in 1..Len(df) : df[k].signal = "BUY" /\ k > 1

\* C3 (as claimed): when no position remains open at series end, the sum of
\* the profit of all closed trades equals final_equity - initial_capital.
C3_RoundTripLaw ==
    (engPc = "done" /\ ~openAtEnd /\ "final_equity" \in DOMAIN returned)
        => RSum(Profits(engine))
             = RSub(returned.final_equity, engine.initial_capital)

\* C4 (as claimed): every closed trade has an exit timestamp strictly
\* greater than its entry timestamp, forced closes included.
C4_ExitAfterEntry ==
    \A k \in 1..Len(engine.trades) :
        engine.trades[k].type = "SELL"
            => engine.trades[k].timestamp > engine.trades[k].entry_time

\* the engine holds no position when bar k arrives
FlatBefore(k) == k = 1 \/ ~engine.equity_curve[k - 1].in_position

\* C5 (as claimed): a SELL received while flat opens a (short) position, and
\* a later EXIT_SHORT closes it and appends a closed trade entered at the
\* SELL bar and exited at the EXIT_SHORT bar.
C5_SellOpensShort ==
    \A k \in 1..Len(df) :
        (df[k].signal = "SELL" /\ FlatBefore(k)) =>
            /\ engine.equity_curve[k].in_position
            /\ \A j \in (k + 1)..Len(df) :
                  (df[j].signal = "EXIT_SHORT"
                     /\ \A m \in (k + 1)..(j - 1) : df[m].signal = "HOLD")
                  => \E n \in 1..Len(engine.trades) :
                        /\ engine.trades[n].timestamp = df[j].timestamp
                        /\ "entry_time" \in DOMAIN engine.trades[n]
                        /\ engine.trades[n].entry_time = df[k].timestamp

\* the bar price of the row with the given timestamp
CloseAt(timestamp) == FromInt(df[timestamp].close)

\* C16 (as claimed): closing a long position at bar price p uses
\* sell_price = p*(1 - slippage), proceeds = quantity*sell_price and
\* commission_cost = proceeds*commission, credits capital by
\* proceeds - commission_cost, and records the trade's pnl as
\* proceeds - commission_cost - quantity*entry_price.
C16_LongCloseAccounting ==
    \A k \in 1..Len(engine.trades) :
        engine.trades[k].type = "SELL" =>
            LET exit            == engine.trades[k]
                entry           == engine.trades[k - 1]
                quantity        == entry.quantity
                sell_price      == RMul(CloseAt(exit.timestamp),
                                        RSub(One, engine.slippage))
                proceeds        == RMul(quantity, sell_price)
                commission_cost == RMul(proceeds, engine.commission)
            IN  /\ exit.price = sell_price
                /\ exit.value = proceeds
                /\ exit.commission = commission_cost
                /\ exit.capital
                      = RAdd(entry.capital, RSub(proceeds, commission_cost))
                /\ exit.profit
                      = RSub(RSub(proceeds, commission_cost),
                             RMul(quantity, exit.entry_price))

\* C17: run_backtest appends exactly one equity point per bar, in bar
\* order, whatever the bar's signal; every point has
\* equity = capital + position_value, where position_value is the quantity
\* held after the bar times the bar's close and 0 when flat; points already
\* appended are never rewritten, so the curve has the length and order of the
\* bar series.
C17_EquityCurvePerBar ==
    /\ [](/\ Len(engine.equity_curve) = Len(df)
          /\ \A k \in 1..Len(engine.equity_curve) :
                LET pt == engine.equity_curve[k]
                IN  /\ pt.timestamp = df[k].timestamp
                    /\ pt.equity = RAdd(pt.capital, pt.position_value)
                    /\ ~pt.in_position => pt.position_value = Zero)
    /\ [][/\ SubSeq(engine'.equity_curve, 1, Len(engine.equity_curve))
                = engine.equity_curve
          /\ Len(df') = Len(df) + 1 =>
                LET pt == engine'.equity_curve[Len(df')]
                IN  /\ Len(engine'.equity_curve) = Len(engine.equity_curve) + 1
                    /\ pt.capital = engine'.capital
                    /\ pt.in_position = engine'.in_position
                    /\ pt.position_value
                          = RMul(engine'.position, FromInt(df'[Len(df')].close))
          /\ Len(df') = Len(df) => engine'.equity_curve = engine.equity_curve]_vars

\* C17 witness: a position entered on the first bar is held over a bar with
\* another close and no trade signal, and the run has returned
C17_Witness ==
    /\ engPc = "done" /\ Len(df) = MaxBars
    /\ df[1].signal = "BUY" /\ df[2].signal = "HOLD"
    /\ df[2].close # df[1].close
    /\ engine.equity_curve[2].in_position

\* the signal alphabet of the engine
Alphabet == {"BUY", "SELL", "EXIT_LONG", "EXIT_SHORT", "HOLD"}

\* C18: a bar whose signal is not one of the five symbols, or is missing, is
\* processed as HOLD: no error is raised, capital, position, entry state and
\* the trade ledger are unchanged, and the bar's equity point is appended.
C18_MalformedSignalIsHold ==
    [][(Len(df') = Len(df) + 1 /\ df'[Len(df')].signal \notin Alphabet) =>
          LET r == df'[Len(df')]
          IN  /\ engPc' = "loop"
              /\ engine'.capital = engine.capital
              /\ engine'.position = engine.position
              /\ engine'.in_position = engine.in_position
              /\ engine'.entry_price = engine.entry_price
              /\ engine'.entry_time = engine.entry_time
              /\ engine'.trades = engine.trades
              /\ Len(engine'.equity_curve) = Len(engine.equity_curve) + 1
              /\ engine'.equity_curve[Len(df')].timestamp = r.timestamp
              /\ engine' = process_row(engine, [r EXCEPT !.signal = "HOLD"],
                                       position_size)]_vars

\* C18 witness: a malformed signal and a missing signal arrived while a
\* position was open, and both bars have their equity point
C18_Witness ==
    /\ Len(df) = 3 /\ df[1].signal = "BUY"
    /\ df[2].signal = "OTHER" /\ df[3].signal = "MISSING"
    /\ engine.in_position /\ Len(engine.trades) = 1
    /\ Len(engine.equity_curve) = 3

\* the explicit 'no trades' results of get_performance_metrics
NoTradesVariants ==
    {[error |-> "No trades executed", total_trades |-> 0],
     [error |-> "No completed trades", total_trades |-> 0]}

\* the keys of a computed metrics record
MetricKeys ==
    {"initial_capital", "final_equity", "total_return", "total_trades",
     "winning_trades", "losing_trades"}

\* C19: a run in which no trade is executed, a single-bar series whose
\* signal is HOLD in particular, returns the explicit 'no trades' variant
\* (an error marker with total_trades = 0); what run_backtest returns is
\* always either a no-trades variant or a complete metrics record.
C19_NoTradesOrMetrics ==
    engPc = "done" =>
        /\ Len(engine.trades) = 0 =>
              /\ returned \in NoTradesVariants
              /\ returned.error = "No trades executed"
              /\ returned.total_trades = 0
        /\ (Len(df) = 1 /\ df[1].signal = "HOLD") => returned \in NoTradesVariants
        /\ \/ returned \in NoTradesVariants
           \/ /\ DOMAIN returned = MetricKeys
              /\ returned.total_trades >= 1
              /\ returned.total_trades
                    = returned.winning_trades + returned.losing_trades

\* C19 witness: a run over several bars, none of which traded, has returned
C19_Witness ==
    /\ engPc = "done" /\ Len(df) >= 2 /\ Len(engine.trades) = 0
    /\ \E k \in 1..Len(df) : df[k].signal = "SELL"
    /\ "error" \in DOMAIN returned

\* C26 (as claimed): every closed-trade record carries the quantity that
\* was held, which is the quantity acquired at the entry and is positive,
\* together with the entry price and the entry time; and a record, once
\* appended to the ledger, is never modified.
C26_ClosedTradeCarriesQuantity ==
    /\ [](\A k \in 1..Len(engine.trades) :
             engine.trades[k].type = "SELL" =>
                LET exit  == engine.trades[k]
                    entry == engine.trades[k - 1]
                IN  /\ exit.quantity = entry.quantity
                    /\ RLt(Zero, exit.quantity)
                    /\ exit.entry_price = entry.price
                    /\ exit.entry_time = entry.timestamp)
    /\ [][SubSeq(engine'.trades, 1, Len(engine.trades)) = engine.trades]_vars

\* C27 (as claimed): when run_backtest returns metrics, final_equity, the
\* equity of the last point of the curve, equals the capital of the engine,
\* also when the position open after the last bar was closed by the forced
\* close, whose slippage and commission the last point then reflects.
C27_FinalEquityIsCapital ==
    (engPc = "done" /\ "final_equity" \in DOMAIN returned)
        => returned.final_equity = engine.capital

\* C29: with position_size in (0, 1], commission and slippage in [0, 1) and
\* positive prices, the capital of the engine is never negative and every
\* point of the equity curve has non-negative equity and capital.
C29_CapitalNeverNegative ==
    /\ RLe(Zero, engine.capital)
    /\ \A k \in 1..Len(engine.equity_curve) :
          /\ RLe(Zero, engine.equity_curve[k].equity)
          /\ RLe(Zero, engine.equity_curve[k].capital)

\* C29 witness: the whole capital was committed to an entry that paid
\* commission and slippage, the position was held at zero capital over a
\* bar, and it was closed at a loss
C29_Witness ==
    /\ engPc = "done" /\ position_size = One
    /\ engine.commission # Zero /\ engine.slippage # Zero
    /\ \E k \in 1..Len(engine.equity_curve) :
          /\ engine.equity_curve[k].in_position
          /\ engine.equity_curve[k].capital = Zero
    /\ RLt(engine.capital, engine.initial_capital)

\* ------------------------------------------------------------------------
\* Properties of the grid search
\* ------------------------------------------------------------------------

RECURSIVE SequentialRun(_)
\* the lists of the sequential loop (n_jobs = 1) after its first n
\* combinations, on the grid and strategy under search
SequentialRun(n) ==
    IF n = 0 THEN [results |-> <<>>, errors |-> <<>>, propagates |-> FALSE]
    ELSE LET before == SequentialRun(n - 1)
         IN  run_combination(before.results, before.errors, strategy[n],
                             combinations[n])

\* the ranked frame grid_search returns with n_jobs = 1
SequentialRanked ==
    sort_values(DataFrame(SequentialRun(Len(combinations)).results))

\* C9 (as claimed): whatever the order in which the workers complete, the
\* ranked frame returned with n_jobs > 1 has the same rows in the same
\* order as the frame returned with n_jobs = 1, ties included.
C9_ParallelEqualsSequential ==
    (gsPc = "done" /\ n_jobs > 1) => results_df = SequentialRanked

\* the combinations whose strategy call raises
Failing == {k \in 1..Len(combinations) : strategy[k].raises}

\* the row a successful combination contributes to the returned frame
RowOf(k) ==
    [metric        |-> strategy[k].metric,
     smooth_bars   |-> combinations[k][1],
     ntz_threshold |-> combinations[k][2]]

\* C10: in both modes a raising combination never aborts the search: every
\* other combination is still run, the search completes, and the returned
\* frame holds exactly one row per combination that did not raise and no
\* row of a combination that raised.
C10_FailuresExcludedNotFatal ==
    /\ gsPc # "raised"
    /\ gsPc = "sequential" => (MoreCombinations \/ AllHandled)
    /\ gsPc = "parallel" => (Running # {} \/ Finished # {} \/ AllHandled)
    /\ gsPc = "done" =>
          /\ Len(results) + Len(errors) = Len(combinations)
          /\ Len(results_df) = Len(combinations) - Cardinality(Failing)
          /\ \A k \in 1..Len(combinations) :
                IF k \in Failing
                THEN /\ \A n \in 1..Len(results_df) :
                           <<results_df[n].smooth_bars,
                             results_df[n].ntz_threshold>> # combinations[k]
                     /\ \E n \in 1..Len(errors) : errors[n] = combinations[k]
                ELSE \E n \in 1..Len(results_df) : results_df[n] = RowOf(k)

\* C10 witness: a parallel search whose first combination raised and which
\* returned the rows of the later combinations
C10_Witness ==
    /\ gsPc = "done" /\ n_jobs > 1
    /\ 1 \in Failing /\ Len(results_df) >= 2
    /\ Len(combinations) \in Failing

\* C11: grid_search invokes the strategy exactly once for each element of
\* the cross-product, never twice, and every collected result and every row
\* of the returned frame carries the parameter values of the combination
\* whose call produced its metric, in sequential mode and, whatever the
\* order in which the workers complete, in parallel mode.
C11_OncePerCombinationPaired ==
    /\ \A k \in DOMAIN calls : calls[k] <= 1
    /\ \A n \in 1..Len(results) :
          \E k \in 1..Len(combinations) :
             /\ results[n].params = combinations[k]
             /\ calls[k] = 1 /\ ~strategy[k].raises
             /\ results[n].metric = strategy[k].metric
    /\ gsPc = "done" =>
          /\ Len(calls) = Len(param_grid[1]) * Len(param_grid[2])
          /\ \A k \in 1..Len(combinations) : calls[k] = 1
          /\ \A n \in 1..Len(results_df) :
                \E k \in 1..Len(combinations) \ Failing :
                   results_df[n] = RowOf(k)

\* C11 witness: a parallel search whose second combination was collected
\* before the first, the two reporting different metric values
C11_Witness ==
    /\ gsPc = "done" /\ n_jobs > 1 /\ Len(results) >= 2
    /\ results[1].params = combinations[2]
    /\ results[2].params = combinations[1]
    /\ strategy[1].metric # strategy[2].metric

\* C12: the frame grid_search returns and stores in self.results is in
\* non-increasing order of the ranking metric, and its first row, the one
\* get_best_params reads, is the row of a successful combination whose
\* metric no successful combination exceeds.
C12_RankedDescending ==
    gsPc = "done" =>
        /\ \A n \in 1..(Len(results_df) - 1) :
              results_df[n].metric >= results_df[n + 1].metric
        /\ Len(results_df) > 0 =>
              \E b \in 1..Len(combinations) \ Failing :
                 /\ get_best_params(results_df) = combinations[b]
                 /\ results_df[1] = RowOf(b)
                 /\ \A k \in 1..Len(combinations) \ Failing :
                       strategy[b].metric >= strategy[k].metric
        /\ Len(results_df) = 0 => get_best_params(results_df) = <<>>

\* C12 witness: the results were collected in increasing metric order and
\* the best combination is the last one of the cross-product
C12_Witness ==
    /\ gsPc = "done" /\ Len(results) >= 3
    /\ results[1].metric < results[Len(results)].metric
    /\ get_best_params(results_df) = combinations[Len(combinations)]
    /\ Failing # {}

\* the combinations whose strategy call has returned a result
Completed ==
    {k \in 1..Len(combinations) : calls[k] > 0 /\ ~strategy[k].raises}

\* C24 (as claimed): when the host aborts a grid search part-way, the
\* ParameterPoint of every combination that had already completed is in the
\* result set the caller holds, and at every moment every row of that
\* published result set is the row of a strategy run that has returned.
C24_AbortKeepsCompletedPoints ==
    /\ gsPc = "aborted" =>
          \A k \in Completed :
             \E n \in 1..Len(results_df) : results_df[n] = RowOf(k)
    /\ \A n \in 1..Len(results_df) :
          \E k \in Completed : results_df[n] = RowOf(k)

\* ------------------------------------------------------------------------
\* Properties of the walk-forward analysis
\* ------------------------------------------------------------------------

\* the bar indexes of data.iloc[a:b]
Slice(a, b) == a..(b - 1)

\* the bar indexes of the train slice and of the test slice of a window
TrainBars(w) == Slice(w.train_start, w.train_end)

TestBars(w) == Slice(w.test_start, w.test_end)

\* C13 (as claimed): the window pairs are non-overlapping: no bar index
\* belongs to the slices of two different windows, and no test bar of a
\* window is part of the training slice of the next window.
C13_WindowsDoNotOverlap ==
    \A a, b \in 1..Len(all_results) :
        a < b =>
            /\ (TrainBars(all_results[a]) \cup TestBars(all_results[a]))
                  \cap (TrainBars(all_results[b]) \cup TestBars(all_results[b]))
               = {}
            /\ b = a + 1 =>
                  TestBars(all_results[a]) \cap TrainBars(all_results[b]) = {}

\* the number of windows the claim states for the input
ExpectedWindows ==
    IF data_len < train_size + test_size THEN 0
    ELSE (data_len - train_size) \div test_size

\* C14: a returned analysis has exactly floor((N - train_size)/test_size)
\* windows, none when N < train_size + test_size; window i is
\* train = [i*test_size, i*test_size + train_size) and
\* test = [train_end, train_end + test_size), lies inside the series, and
\* the test slices are consecutive and pairwise disjoint; 300 bars with
\* train_size=100 and test_size=50 give 4 windows beginning
\* (0,100,100,150), (50,150,150,200).
C14_WindowLayout ==
    /\ \A k \in 1..Len(all_results) :
          LET w == all_results[k]
          IN  /\ w.window = k - 1
              /\ w.train_start = (k - 1) * test_size
              /\ w.train_end = (k - 1) * test_size + train_size
              /\ w.test_start = w.train_end
              /\ w.test_end = w.train_end + test_size
              /\ w.train_start >= 0 /\ w.test_end <= data_len
              /\ k > 1 => w.test_start = all_results[k - 1].test_end
              /\ \A j \in 1..(k - 1) :
                    TestBars(all_results[j]) \cap TestBars(w) = {}
    /\ wfPc = "done" =>
          /\ Len(all_results) = ExpectedWindows
          /\ wf_returned.windows = all_results
          /\ (data_len = 300 /\ train_size = 100 /\ test_size = 50) =>
                /\ Len(all_results) = 4
                /\ all_results[1].train_start = 0
                /\ all_results[1].train_end = 100
                /\ all_results[1].test_start = 100
                /\ all_results[1].test_end = 150
                /\ all_results[2].train_start = 50
                /\ all_results[2].train_end = 150
                /\ all_results[2].test_start = 150
                /\ all_results[2].test_end = 200

\* C14 witness: the analysis of the 300-bar frame has returned its windows
C14_Witness ==
    /\ wfPc = "done" /\ data_len = 300 /\ train_size = 100 /\ test_size = 50
    /\ Len(wf_returned.windows) = 4
    /\ wf_returned.windows[4].test_end = 300

\* C15 (as claimed): the combination evaluated on the test slice of a window
\* is the one the grid search on that window's train slice ranked first,
\* a combination that was searched and succeeded there, never a default and
\* never the choice of an earlier window; its test result is the one
\* recorded for the window and enters the aggregate.
C15_TestsBestOfOwnWindow ==
    /\ [][Len(all_results') = Len(all_results) + 1 =>
            LET w == all_results'[Len(all_results')]
            IN  /\ w.test_result.kwargs = w.best_params
                /\ \E k \in 1..Len(combinations) \ Failing :
                      /\ w.best_params = combinations[k]
                      /\ calls[k] = 1
                      /\ results_df[1] = RowOf(k)
                      /\ \A j \in 1..Len(combinations) \ Failing :
                            strategy[k].metric >= strategy[j].metric]_vars
    /\ [](wfPc = "done" =>
            /\ wf_returned.windows = all_results
            /\ Len(all_results) > 0 =>
                  RMul(wf_returned.avg_test_sharpe, FromInt(Len(all_results)))
                     = RSum([k \in 1..Len(all_results) |->
                               FromInt(all_results[k].test_result.sharpe_ratio)]))

\* C30 (as claimed): on a series of fewer than train_size + test_size bars
\* walk_forward_analysis raises no error and returns an empty window list
\* together with an aggregate mean that is defined, not NaN.
C30_ShortSeriesDefinedAggregate ==
    data_len < train_size + test_size =>
        /\ wfPc \in {"loop", "done"}
        /\ wfPc = "done" =>
              /\ wf_returned.windows = <<>>
              /\ wf_returned.avg_test_sharpe # NaN

\* ------------------------------------------------------------------------
\* Properties of the analyzer
\* ------------------------------------------------------------------------

\* gross profit and |gross loss| of the ledger
GrossProfit == sum(SelectSeq(pnl_column(an_trades), IsWin))

GrossLoss == Abs(sum(SelectSeq(pnl_column(an_trades), IsLoss)))

\* C22 (as claimed): calculate_metrics reports profit_factor = gross profit
\* / |gross loss| when gross loss is non-zero, the +infinity sentinel when
\* gross loss is zero and gross profit > 0, and 0 when both are zero.
C22_ProfitFactorSentinels ==
    an_calls >= 1 =>
        an_metrics.profit_factor =
            IF GrossLoss # 0 THEN Rat(GrossProfit, GrossLoss)
            ELSE IF GrossProfit > 0 THEN Inf
            ELSE Zero

\* C25 (as claimed): calculate_metrics leaves the trade ledger and the
\* equity curve it was given unchanged, no field added, removed or modified,
\* and a further call on the same inputs returns the same metrics.
C25_CalculateMetricsIsPure ==
    [][an_calls' = an_calls + 1 =>
          /\ an_trades' = an_trades
          /\ an_equity' = an_equity
          /\ an_calls >= 1 => an_metrics' = an_metrics]_vars

\* C28 (as claimed): for every ledger, break-even trades included, the
\* streak metrics are bounded by the counts: max_consecutive_wins <=
\* winning_trades and max_consecutive_losses <= losing_trades.
C28_StreaksWithinCounts ==
    an_calls >= 1 =>
        /\ an_metrics.max_consecutive_wins <= an_metrics.winning_trades
        /\ an_metrics.max_consecutive_losses <= an_metrics.losing_trades

====
